---- MODULE Spec2Model ----
(***************************************************************************)
(* The two Phase 4A rewriting scripts of apps/api/scripts:                 *)
(*   apply-phase-4a-changes.py   ("changes")                               *)
(*   apply-phase-4a-complete.py  ("complete")                              *)
(*                                                                         *)
(* A text is a sequence of tokens.  A token is a fragment of the file, the *)
(* whitespace between two tokens is immaterial (the patterns of the        *)
(* scripts join their fragments with \s+ or glue them).  Fragments are cut *)
(* wherever some pattern of the scripts begins or ends, so that a pattern  *)
(* matching a part of a longer line is a pattern matching some tokens of   *)
(* it ("// Verify division exists" inside "// Verify division exists       *)
(* (redundant but kept)" is the first of two tokens).                      *)
(***************************************************************************)
EXTENDS Integers, Sequences, FiniteSets, TLC

VARIABLES
    original,    \* content of divisions.ts before the first run
    script,      \* which script the process runs: "changes" or "complete"
    fault,       \* the I/O operation the environment fails in this run
    pc,          \* position of the process in main()
    file,        \* content of divisions.ts on disk
    pre,         \* content of divisions.ts when the run started
    content,     \* the local `content` of update_divisions_file
    hist,        \* the successive values of `content`, hist[1] the text read
    ruleNo,      \* number of re.sub calls of update_divisions_file done
    reads,       \* completed f.read() calls of the run
    opensW,      \* successful open(path, 'w') calls of the run
    writes,      \* completed f.write() calls of the run
    written,     \* the argument of the last f.write()
    out,         \* lines printed on standard output in the run
    exitCode,    \* exit status of the process, -1 while it runs
    runs,        \* number of runs started
    okRuns,      \* runs of the changes script that ended with status 0
    cin,         \* argument of the complete script's update_divisions_file
    ctext,       \* its local `content`
    cstep,       \* number of its rule steps done
    cocc,        \* occurrences replaced by each step done
    cins         \* handler in which each step done placed its first match

vars == <<original, script, fault, pc, file, pre, content, hist, ruleNo, reads, opensW,
          writes, written, out, exitCode, runs, okRuns,
          cin, ctext, cstep, cocc, cins>>

procVars == <<original, script, fault, pc, file, pre, content, hist, ruleNo, reads,
              opensW, writes, written, out, exitCode, runs, okRuns>>

funVars == <<cin, ctext, cstep, cocc, cins>>

----------------------------------------------------------------------------
(* Bounds of the model.                                                    *)

\* runs of a script against the same file
MaxRuns == 2

\* occurrences of the "Create division schema" doc comment in an input
MaxAnchors == 1

\* route handlers in an argument of the complete script's function
MaxHandlers == 2

----------------------------------------------------------------------------
(* re.sub on token sequences.                                              *)
(*                                                                         *)
(* A rule is [segs, keep, ins, count]: segs are the literal parts of the   *)
(* pattern, in order, with a lazy dot-matches-newline gap (.*?) between    *)
(* two of them; the replacement keeps the matched text up to and including *)
(* the first `keep` tokens of the last part (the groups the template       *)
(* refers to) and puts `ins` after it; count is re.sub's count, 0 for all  *)
(* occurrences.                                                            *)

Last(s) == s[Len(s)]

OccursAt(t, pat, i) ==
    /\ i >= 1
    /\ i + Len(pat) - 1 <= Len(t)
    /\ \A j \in 1..Len(pat) : t[i + j - 1] = pat[j]

\* leftmost position >= from where pat occurs in t, 0 when there is none
FindFrom(t, pat, from) ==
    LET S == {i \in from..(Len(t) - Len(pat) + 1) : OccursAt(t, pat, i)}
    IN  IF S = {} THEN 0 ELSE CHOOSE i \in S : \A j \in S : i <= j

\* the position after the match of segs[k], segs[k+1], ... each taken at its
\* leftmost occurrence at or after the end of the one before (lazy gaps);
\* 0 when some part does not occur
RECURSIVE MatchEnd(_, _, _, _)
MatchEnd(t, segs, k, from) ==
    IF k > Len(segs) THEN from
    ELSE LET i == FindFrom(t, segs[k], from)
         IN  IF i = 0 THEN 0 ELSE MatchEnd(t, segs, k + 1, i + Len(segs[k]))

\* the leftmost match of the pattern at or after from: [s, e), s = 0 for none
Search(t, segs, from) ==
    LET s == FindFrom(t, segs[1], from)
        e == IF s = 0 THEN 0 ELSE MatchEnd(t, segs, 2, s + Len(segs[1]))
    IN  IF e = 0 THEN [s |-> 0, e |-> 0] ELSE [s |-> s, e |-> e]

\* the number of substitutions re.sub may still make
Limit(t, r) == IF r.count = 0 THEN Len(t) + 1 ELSE r.count

RECURSIVE SubFrom(_, _, _, _)
SubFrom(t, r, from, left) ==
    LET m == Search(t, r.segs, from)
    IN  IF left = 0 \/ m.s = 0
        THEN SubSeq(t, from, Len(t))
        ELSE SubSeq(t, from, m.e - 1 - (Len(Last(r.segs)) - r.keep))
                 \o r.ins \o SubFrom(t, r, m.e, left - 1)

\* re.sub(pattern, replacement, t, count)
Sub(t, r) == SubFrom(t, r, 1, Limit(t, r))

RECURSIVE OccFrom(_, _, _, _)
OccFrom(t, r, from, left) ==
    LET m == Search(t, r.segs, from)
    IN  IF left = 0 \/ m.s = 0 THEN 0 ELSE 1 + OccFrom(t, r, m.e, left - 1)

\* the number of occurrences re.sub(pattern, replacement, t, count) replaces
Occ(t, r) == OccFrom(t, r, 1, Limit(t, r))

\* a rule replacing every occurrence of the literal pat by rep
Lit(pat, rep) == [segs |-> <<pat>>, keep |-> 0, ins |-> rep, count |-> 0]

\* the number of occurrences of the literal pat in t
Count(t, pat) == Occ(t, Lit(pat, <<>>))

\* a step of a pipeline is a sequence of rules applied one after the other
RECURSIVE SubAll(_, _, _)
SubAll(t, rs, k) == IF k > Len(rs) THEN t ELSE SubAll(Sub(t, rs[k]), rs, k + 1)

RECURSIVE OccAll(_, _, _)
OccAll(t, rs, k) ==
    IF k > Len(rs) THEN 0 ELSE Occ(t, rs[k]) + OccAll(Sub(t, rs[k]), rs, k + 1)

----------------------------------------------------------------------------
(* Fragments of divisions.ts that several definitions name.                *)

PathDivisions     == "('/divisions',"
PathDivisionId    == "('/divisions/:id',"
PathGenerate      == "('/divisions/:divisionId/generate-matches',"
PathPools         == "('/divisions/:divisionId/pools',"
PathPoolsBulk     == "('/divisions/:divisionId/pools/bulk',"
ScopedDivisions   == "('/tournaments/:tournamentId/divisions',"
ScopedDivisionId  == "('/tournaments/:tournamentId/divisions/:id',"
ScopedGenerate    == "('/tournaments/:tournamentId/divisions/:divisionId/generate-matches',"
ScopedPools       == "('/tournaments/:tournamentId/divisions/:divisionId/pools',"
ScopedPoolsBulk   == "('/tournaments/:tournamentId/divisions/:divisionId/pools/bulk',"

AsyncOpen         == "async (request, reply) => {"
TryOpen           == "try {"
VerifyExists      == "// Verify division exists"
ValidateParameters == "// Validate parameters"
OldParse          == "const paramsResult = divisionParamsSchema.safeParse"
NewParse          == "const paramsResult = tournamentDivisionParamsSchema.safeParse"
IdData            == "const { id } = paramsResult.data;"
TidData           == "const { tournamentId, id } = paramsResult.data;"
NameData          == "const { name } = bodyResult.data;"
DivisionIdNumber  == "const divisionId = Number(request.params.divisionId);"
IsNaNCheck        == "if (isNaN(divisionId)) { return reply.status(400).send({ error: 'Invalid division ID', }); }"
ParamsTournament  == "Params: z.infer<typeof tournamentParamsSchema>;"
ParamsTournamentDivision == "Params: z.infer<typeof tournamentDivisionParamsSchema>;"
ParamsDivisionId  == "Params: z.infer<typeof divisionIdParamsSchema>;"
BodyCreate        == "Body: z.infer<typeof createDivisionSchema>;"
BodyUpdate        == "Body: z.infer<typeof updateDivisionSchema>;"
BodyGenerate      == "Body: z.infer<typeof generateMatchesSchema>;"
BodyPool          == "Body: z.infer<typeof createPoolSchema>;"
BodyBulk          == "Body: z.infer<typeof bulkCreatePoolsSchema>;"
QueryList         == "Querystring: z.infer<typeof listDivisionsQuerySchema>;"
RoutesDecl        == "const divisionsRoutes: FastifyPluginAsync = async (fastify) => {"
CreateSchemaDoc   == "/** Create division schema. */"

----------------------------------------------------------------------------
(* Inputs: divisions.ts as the patterns of the scripts expect it.          *)
(*                                                                         *)
(* A route declaration is  fastify.<method><{ types }>('<path>', ...       *)
(* sep is what stands between the types and the path: "}>" in the          *)
(* framework's convention; the patterns of the scripts ask for "}>'" and   *)
(* "}}>'" there, so inputs written that way are drawn too.                 *)

Conventional == <<"}>">>
Quoted       == <<"}>", "'">>
DoubleQuoted == <<"}", "}>", "'">>

Styles == {[sep |-> s, scoped |-> b] : s \in {Conventional, Quoted, DoubleQuoted},
                                       b \in BOOLEAN}

FlatConventional == [sep |-> Conventional, scoped |-> FALSE]

Options == <<"{", "schema: { ... },", "},">>

CreateHandler(st) ==
    <<"fastify.post<{", BodyCreate>> \o st.sep
    \o <<IF st.scoped THEN ScopedDivisions ELSE PathDivisions>> \o Options
    \o <<AsyncOpen, "// Validate body",
         "const bodyResult = createDivisionSchema.safeParse(request.body);",
         "if (!bodyResult.success) { return reply.status(400).send({ error: 'Invalid request body', details }); }",
         NameData, TryOpen,
         "const [division] = await db.insert(divisions).values({ name }).returning();",
         "return reply.status(201).send(division);",
         "} catch (error) {",
         "fastify.log.error({ error, name }, 'Error creating division');",
         "throw error;", "}", "});">>

ListHandler(st) ==
    <<"fastify.get<{", QueryList>> \o st.sep
    \o <<IF st.scoped THEN ScopedDivisions ELSE PathDivisions,
         AsyncOpen, "// Validate query",
         "const queryResult = listDivisionsQuerySchema.safeParse(request.query);",
         "const { limit, offset } = queryResult.data;", TryOpen,
         "// Get divisions with pagination", "const divisionsList = await db",
         ".select()", ".from(divisions)", ".limit(limit).offset(offset);",
         "// Get total count", "const countResult = await db",
         ".select({ count: sql<number> })", ".from(divisions)", ";",
         "return reply.send({ divisions: divisionsList, total });", "});">>

GetHandler(st) ==
    <<"fastify.get<{",
      IF st.scoped THEN ParamsTournamentDivision ELSE "Params: { id: number };">>
    \o st.sep
    \o <<IF st.scoped THEN ScopedDivisionId ELSE PathDivisionId,
         AsyncOpen, ValidateParameters, OldParse, "(request.params);",
         "if (!paramsResult.success) { return reply.status(400).send({ error }); }",
         IdData, TryOpen, "const [division] = await db.select().from(divisions).where(eq(divisions.id, id));",
         "});">>

PutHandler(st) ==
    <<"fastify.put<{",
      IF st.scoped THEN ParamsTournamentDivision ELSE "Params: { id: number };",
      BodyUpdate>> \o st.sep
    \o <<IF st.scoped THEN ScopedDivisionId ELSE PathDivisionId>> \o Options
    \o <<AsyncOpen, ValidateParameters, OldParse, "(request.params);",
         "if (!paramsResult.success) { return reply.status(400).send({ error }); }",
         IdData, "// Validate body",
         "const bodyResult = updateDivisionSchema.safeParse(request.body);",
         NameData, TryOpen, "// Check if division exists",
         "const [updated] = await db.update(divisions).set({ name }).where(eq(divisions.id, id)).returning();",
         "});">>

DeleteHandler(st) ==
    <<"fastify.delete<{",
      IF st.scoped THEN ParamsTournamentDivision ELSE "Params: { id: number };">>
    \o st.sep
    \o <<IF st.scoped THEN ScopedDivisionId ELSE PathDivisionId>> \o Options
    \o <<AsyncOpen, ValidateParameters, OldParse, "(request.params);",
         "if (!paramsResult.success) { return reply.status(400).send({ error }); }",
         IdData, TryOpen, "await db.delete(divisions).where(eq(divisions.id, id));",
         "});">>

GenerateHandler(st) ==
    <<"fastify.post<{", "Params: { divisionId: number };", BodyGenerate>> \o st.sep
    \o <<IF st.scoped THEN ScopedGenerate ELSE PathGenerate>> \o Options
    \o <<AsyncOpen, DivisionIdNumber, IsNaNCheck,
         "const bodyResult = generateMatchesSchema.safeParse(request.body);",
         "const { format } = bodyResult.data;", TryOpen, VerifyExists,
         "const matchesCreated = await generateMatches(divisionId, format);",
         "});">>

PoolHandler(st) ==
    <<"fastify.post<{", "Params: { divisionId: number };", BodyPool>> \o st.sep
    \o <<IF st.scoped THEN ScopedPools ELSE PathPools>> \o Options
    \o <<AsyncOpen, DivisionIdNumber, IsNaNCheck,
         "const bodyResult = createPoolSchema.safeParse(request.body);",
         "const { name, label, orderIndex } = bodyResult.data;", TryOpen, VerifyExists,
         "const [pool] = await db.insert(pools).values({ division_id: divisionId, name, label }).returning();",
         "});">>

BulkHandler(st) ==
    <<"fastify.post<{", "Params: { divisionId: number };", BodyBulk>> \o st.sep
    \o <<IF st.scoped THEN ScopedPoolsBulk ELSE PathPoolsBulk>> \o Options
    \o <<AsyncOpen, DivisionIdNumber, IsNaNCheck,
         "const bodyResult = bulkCreatePoolsSchema.safeParse(request.body);",
         "const { pools: poolsToCreate } = bodyResult.data;", TryOpen, VerifyExists,
         "const created = await db.insert(pools).values(poolsToCreate).returning();",
         "});">>

RouteNames == {"create", "list", "get", "put", "delete", "generate", "pools", "bulk"}

Handler(name, st) ==
    CASE name = "create"   -> CreateHandler(st)
      [] name = "list"     -> ListHandler(st)
      [] name = "get"      -> GetHandler(st)
      [] name = "put"      -> PutHandler(st)
      [] name = "delete"   -> DeleteHandler(st)
      [] name = "generate" -> GenerateHandler(st)
      [] name = "pools"    -> PoolHandler(st)
      [] name = "bulk"     -> BulkHandler(st)

RECURSIVE Handlers(_, _)
Handlers(names, st) ==
    IF names = <<>> THEN <<>>
    ELSE Handler(names[1], st) \o Handlers(SubSeq(names, 2, Len(names)), st)

\* the order of the routes in the header comment the changes script writes
AllRoutes == <<"create", "list", "get", "put", "delete", "generate", "pools", "bulk">>

OldHeader == "/** Division CRUD endpoints. Manages tournament divisions with full CRUD operations. */"
OldImport == "import { divisions, teams, pools, matches, players, court_assignments } from '../lib/db/schema.js';"
OldParamsDoc  == "/** Division ID parameter schema. */"
OldParamsDecl == "const divisionParamsSchema = z.object({ id: z.coerce.number().int().positive(), });"

RECURSIVE Repeat(_, _)
Repeat(s, n) == IF n = 0 THEN <<>> ELSE s \o Repeat(s, n - 1)

\* what precedes the routes: header, import, schema declarations
Prelude(hdr, imp, anchors, dps) ==
    (IF hdr THEN <<OldHeader>> ELSE <<>>)
    \o (IF imp THEN <<OldImport>> ELSE <<>>)
    \o Repeat(<<CreateSchemaDoc, "const createDivisionSchema = z.object({ name });">>, anchors)
    \o (IF dps THEN <<OldParamsDoc, OldParamsDecl>> ELSE <<>>)

\* the plugin function: its declaration, the routes, its end
Plugin(decl, names, st) ==
    (IF decl THEN <<RoutesDecl>> ELSE <<"const divisionsRoutes: FastifyPluginAsync = async (app) => {">>)
    \o Handlers(names, st) \o <<"};", "export default divisionsRoutes;">>

\* the files a run of a script starts from
Files ==
    {Prelude(h, i, a, d) \o body :
        h \in BOOLEAN, i \in BOOLEAN, a \in 0..MaxAnchors, d \in BOOLEAN,
        body \in {<<>>, Plugin(TRUE, AllRoutes, FlatConventional),
                  Plugin(TRUE, AllRoutes, [sep |-> Quoted, scoped |-> FALSE])}}

\* the sequences of at most n distinct route names
RECURSIVE Orders(_)
Orders(n) ==
    IF n = 0 THEN {<<>>}
    ELSE LET S == Orders(n - 1)
         IN  S \cup {Append(o, r) : o \in {x \in S : Len(x) = n - 1},
                                    r \in RouteNames}

DistinctOrders(n) ==
    {o \in Orders(n) : \A i, j \in 1..Len(o) : i # j => o[i] # o[j]}

\* the arguments update_divisions_file of the complete script is applied to
Arguments ==
    {Prelude(FALSE, FALSE, 1, FALSE) \o Plugin(decl, o, st) :
        decl \in BOOLEAN, o \in DistinctOrders(MaxHandlers), st \in Styles}

----------------------------------------------------------------------------
(* apply-phase-4a-changes.py: update_divisions_file, one rule per re.sub.  *)

NewHeader == "/** Division CRUD endpoints (UPDATED - Phase 4A: Tournament Context). ... */"
NewImport == "import { tournaments, divisions, teams, pools, matches, players, court_assignments } from '../lib/db/schema.js';"

\* new_schemas: three declarations, each with its doc comment
new_schemas ==
    <<"/** Tournament ID parameter schema. */",
      "const tournamentParamsSchema = z.object({ tournamentId });",
      "/** Tournament + Division ID parameter schema. */",
      "const tournamentDivisionParamsSchema = z.object({ tournamentId, id });",
      "/** Division ID parameter schema (for generate-matches and pools). */",
      "const divisionIdParamsSchema = z.object({ tournamentId, divisionId });">>

\* 1. Update header comment
HeaderRule == Lit(<<OldHeader>>, <<NewHeader>>)

\* 2. Update imports - add tournaments
ImportRule == Lit(<<OldImport>>, <<NewImport>>)

\* 3. Add new Zod schemas before createDivisionSchema
SchemasRule == Lit(<<CreateSchemaDoc>>, new_schemas \o <<CreateSchemaDoc>>)

\* 4. Remove old divisionParamsSchema
RemovalRule == Lit(<<OldParamsDoc, OldParamsDecl>>, <<>>)

\* 5. Update CREATE Division route: the pattern has a quote between }> and (
CreateRouteRule ==
    Lit(<<"fastify.post<{", BodyCreate, "}>", "'", PathDivisions, "{">>,
        <<"fastify.post<{", ParamsTournament, BodyCreate, "}>", ScopedDivisions, "{">>)

ChangesRules == <<HeaderRule, ImportRule, SchemasRule, RemovalRule, CreateRouteRule>>

\* update_divisions_file(t) of the changes script, as a function
update_divisions_file(t) == SubAll(t, ChangesRules, 1)

----------------------------------------------------------------------------
(* The process: python3 <script>, from its start to its exit.              *)

Scripts == {"changes", "complete"}

\* the I/O call of main() the environment makes fail in a run, if any
Faults == {"none", "read", "open_w", "write"}

\* an uncaught exception (OSError out of main(), SyntaxError at compile
\* time) ends the interpreter with status 1
UncaughtExit == 1

\* the text the next re.sub of update_divisions_file is given
RuleInputOriginal == hist[1]
RuleInput == content

\* open(path, 'w') that raises has not truncated the file
FileAfterFailedOpenTruncated(f) == <<>>
FileAfterFailedOpen(f) == f

SuccessLine == "divisions.ts updated successfully"

\* what a printed line states about a rule: (rule, occurrences) pairs.
\* The only line main() prints names no rule.
RuleFacts(line) == {}

\* the locals and counters of a run that has not yet read the file
FreshRun ==
    /\ content = <<>>
    /\ hist = <<>>
    /\ ruleNo = 0
    /\ reads = 0
    /\ opensW = 0
    /\ writes = 0
    /\ written = <<>>
    /\ out = <<>>
    /\ exitCode = -1

Init ==
    /\ script \in Scripts
    /\ fault \in Faults
    /\ pc = "start"
    /\ file \in Files
    /\ original = file
    /\ pre = file
    /\ FreshRun
    /\ runs = 1
    /\ okRuns = 0
    /\ cin = <<>> /\ ctext = <<>> /\ cstep = 0 /\ cocc = <<>> /\ cins = <<>>

\* the interpreter compiles apply-phase-4a-changes.py and enters main()
LoadChanges ==
    /\ pc = "start"
    /\ script = "changes"
    /\ pc' = "read"
    /\ UNCHANGED <<script, fault, file, pre, content, hist, ruleNo, reads,
                   opensW, writes, written, out, exitCode, runs, okRuns>>
    /\ UNCHANGED <<original, funVars>>

\* the interpreter rejects apply-phase-4a-complete.py: line 234 holds an
\* f-string with a single '}' (so do lines 236, 383 and 391); SyntaxError,
\* no statement of the script runs
LoadComplete ==
    /\ pc = "start"
    /\ script = "complete"
    /\ pc' = "exit"
    /\ exitCode' = UncaughtExit
    /\ UNCHANGED <<script, fault, file, pre, content, hist, ruleNo, reads,
                   opensW, writes, written, out, runs, okRuns>>
    /\ UNCHANGED <<original, funVars>>

\* with open(path, 'r') as f: divisions_content = f.read()
ReadFile ==
    /\ pc = "read"
    /\ fault # "read"
    /\ content' = file
    /\ hist' = <<file>>
    /\ reads' = reads + 1
    /\ pc' = "rules"
    /\ UNCHANGED <<script, fault, file, pre, ruleNo, opensW, writes, written,
                   out, exitCode, runs, okRuns>>
    /\ UNCHANGED <<original, funVars>>

\* open or read raises OSError: main() is left by the exception
ReadFail ==
    /\ pc = "read"
    /\ fault = "read"
    /\ pc' = "exit"
    /\ exitCode' = UncaughtExit
    /\ UNCHANGED <<script, fault, file, pre, content, hist, ruleNo, reads,
                   opensW, writes, written, out, runs, okRuns>>
    /\ UNCHANGED <<original, funVars>>

\* content = re.sub(pattern, replacement, content): the next rule
ApplyRule ==
    /\ pc = "rules"
    /\ ruleNo < Len(ChangesRules)
    /\ content' = Sub(RuleInput, ChangesRules[ruleNo + 1])
    /\ hist' = Append(hist, content')
    /\ ruleNo' = ruleNo + 1
    /\ UNCHANGED <<script, fault, pc, file, pre, reads, opensW, writes,
                   written, out, exitCode, runs, okRuns>>
    /\ UNCHANGED <<original, funVars>>

\* return content; open(path, 'w') truncates the file
OpenWrite ==
    /\ pc = "rules"
    /\ ruleNo = Len(ChangesRules)
    /\ fault # "open_w"
    /\ file' = <<>>
    /\ opensW' = opensW + 1
    /\ pc' = "write"
    /\ UNCHANGED <<script, fault, pre, content, hist, ruleNo, reads, writes,
                   written, out, exitCode, runs, okRuns>>
    /\ UNCHANGED <<original, funVars>>

\* open(path, 'w') raises OSError
OpenWriteFail ==
    /\ pc = "rules"
    /\ ruleNo = Len(ChangesRules)
    /\ fault = "open_w"
    /\ file' = FileAfterFailedOpen(file)
    /\ pc' = "exit"
    /\ exitCode' = UncaughtExit
    /\ UNCHANGED <<script, fault, pre, content, hist, ruleNo, reads, opensW,
                   writes, written, out, runs, okRuns>>
    /\ UNCHANGED <<original, funVars>>

\* f.write(updated_content) and the close at the end of the with block
WriteFile ==
    /\ pc = "write"
    /\ fault # "write"
    /\ file' = content
    /\ written' = content
    /\ writes' = writes + 1
    /\ pc' = "report"
    /\ UNCHANGED <<script, fault, pre, content, hist, ruleNo, reads, opensW,
                   out, exitCode, runs, okRuns>>
    /\ UNCHANGED <<original, funVars>>

\* the write or the flush at close raises OSError after n tokens reached
\* the file
WriteFail ==
    /\ pc = "write"
    /\ fault = "write"
    /\ \E n \in 0..Len(content) :
          /\ n = 0 \/ n < Len(content)
          /\ file' = SubSeq(content, 1, n)
    /\ written' = content
    /\ pc' = "exit"
    /\ exitCode' = UncaughtExit
    /\ UNCHANGED <<script, fault, pre, content, hist, ruleNo, reads, opensW,
                   writes, out, runs, okRuns>>
    /\ UNCHANGED <<original, funVars>>

\* the success line; main() returns and the interpreter exits with status 0
Report ==
    /\ pc = "report"
    /\ out' = Append(out, SuccessLine)
    /\ pc' = "exit"
    /\ exitCode' = 0
    /\ okRuns' = okRuns + 1
    /\ UNCHANGED <<script, fault, file, pre, content, hist, ruleNo, reads,
                   opensW, writes, written, runs>>
    /\ UNCHANGED <<original, funVars>>

\* after a run that reported success the operator runs a script on the
\* file that run left (the two scripts are run one after the other)
Rerun ==
    /\ pc = "exit"
    /\ exitCode = 0
    /\ runs < MaxRuns
    /\ script' \in Scripts
    /\ fault' \in Faults
    /\ pc' = "start"
    /\ pre' = file
    /\ content' = <<>>
    /\ hist' = <<>>
    /\ ruleNo' = 0
    /\ reads' = 0
    /\ opensW' = 0
    /\ writes' = 0
    /\ written' = <<>>
    /\ out' = <<>>
    /\ exitCode' = -1
    /\ runs' = runs + 1
    /\ UNCHANGED <<file, okRuns>>
    /\ UNCHANGED <<original, funVars>>

Next ==
    \/ LoadChanges
    \/ LoadComplete
    \/ ReadFile
    \/ ReadFail
    \/ ApplyRule
    \/ OpenWrite
    \/ OpenWriteFail
    \/ WriteFile
    \/ WriteFail
    \/ Report
    \/ Rerun

Spec == Init /\ [][Next]_vars

----------------------------------------------------------------------------
(* apply-phase-4a-complete.py: the rules of update_divisions_file, in the  *)
(* order of the function body.  The interpreter never runs them            *)
(* (LoadComplete); they are what the function body states, the single '}'  *)
(* of the rejected f-strings read as the brace it stands for.              *)

\* validation_helpers: the two helper routines, each with its doc comment
validation_helpers ==
    <<"/** Validate tournament exists and return it. */",
      "async function validateTournament(tournamentId: number, reply: any) { ... }",
      "/** Validate division belongs to tournament. */",
      "async function validateDivisionInTournament(tournamentId: number, divisionId: number, reply: any) { ... }">>

CallTournament  == "const tournament = await validateTournament(tournamentId, reply);"
CallDivision    == "const division = await validateDivisionInTournament(tournamentId, id, reply);"
CallValidId     == "const validDivision = await validateDivisionInTournament(tournamentId, id, reply);"
CallValidDivisionId == "const validDivision = await validateDivisionInTournament(tournamentId, divisionId, reply);"
BelongsComment  == "// Validate division belongs to tournament"
InvalidParameters == "if (!paramsResult.success) { return reply.status(400).send({ error: 'Invalid parameters', details }); }"

\* Insert validation helpers after the divisionsRoutes declaration
HelpersRule ==
    [segs |-> <<<<RoutesDecl>>>>, keep |-> 1, ins |-> validation_helpers, count |-> 0]

\* 1. CREATE Division - update route path
CompleteCreateRouteRule ==
    Lit(<<"fastify.post<{", BodyCreate, "}>", "'", PathDivisions>>,
        <<"fastify.post<{", ParamsTournament, BodyCreate, "}>", ScopedDivisions>>)

old_create_handler ==
    <<"},", AsyncOpen, "// Validate body",
      "const bodyResult = createDivisionSchema.safeParse(request.body);",
      "if (!bodyResult.success) { return reply.status(400).send({ error: 'Invalid request body', details }); }",
      NameData, TryOpen,
      "const [division] = await db.insert(divisions).values({ name }).returning();",
      "return reply.status(201).send(division);",
      "} catch (error) {",
      "fastify.log.error({ error, name }, 'Error creating division');",
      "throw error;", "}", "});">>

new_create_handler ==
    <<"},", AsyncOpen, "// Validate params",
      "const paramsResult = tournamentParamsSchema.safeParse(request.params);",
      InvalidParameters, "// Validate body",
      "const bodyResult = createDivisionSchema.safeParse(request.body);",
      "if (!bodyResult.success) { return reply.status(400).send({ error: 'Invalid request body', details }); }",
      "const { tournamentId } = paramsResult.data;", NameData, TryOpen,
      "// Validate tournament exists", CallTournament, "if (!tournament) return;",
      "// Create division with tournament_id",
      "const [division] = await db.insert(divisions).values({ name, tournament_id: tournamentId, }).returning();",
      "return reply.status(201).send(division);",
      "} catch (error) {",
      "fastify.log.error({ error, tournamentId, name }, 'Error creating division');",
      "throw error;", "}", "});">>

\* Replace CREATE Division handler body
CreateHandlerRule == Lit(old_create_handler, new_create_handler)

\* 2. LIST Divisions - update route path
ListRouteRule ==
    Lit(<<"fastify.get<{", QueryList, "}>", "'", PathDivisions>>,
        <<"fastify.get<{", ParamsTournament, QueryList, "}>", ScopedDivisions>>)

\* Update LIST handler to add tournament validation: the pattern asks for
\* }}>' before the rewritten path
ListHandlerRule ==
    [segs |-> <<<<"}", "}>", "'", ScopedDivisions, AsyncOpen, "// Validate query">>>>,
     keep |-> 5,
     ins |-> <<"// Validate params",
               "const paramsResult = tournamentParamsSchema.safeParse(request.params);",
               InvalidParameters, "const { tournamentId } = paramsResult.data;",
               "// Validate query">>,
     count |-> 0]

\* Update LIST query to filter by tournament_id
ListQueryRule ==
    [segs |-> <<<<"const { limit, offset } = queryResult.data;", TryOpen,
                  "// Get divisions with pagination", "const divisionsList = await db",
                  ".select()", ".from(divisions)">>>>,
     keep |-> 1,
     ins |-> <<TryOpen, "// Validate tournament exists", CallTournament,
               "if (!tournament) return;",
               "// Get divisions for this tournament with pagination",
               "const divisionsList = await db", ".select()", ".from(divisions)",
               ".where(eq(divisions.tournament_id, tournamentId))">>,
     count |-> 0]

\* Update count query to filter by tournament
CountQueryRule ==
    Lit(<<"// Get total count", "const countResult = await db",
          ".select({ count: sql<number> })", ".from(divisions)", ";">>,
        <<"// Get total count", "for this tournament", "const countResult = await db",
          ".select({ count: sql<number> })", ".from(divisions)",
          ".where(eq(divisions.tournament_id, tournamentId))", ";">>)

\* 3-5. Update GET, PUT, DELETE routes: old_pattern with and without its
\* optional Body group, new_route by method
IdRouteRules(method) ==
    LET open == IF method = "get" THEN "fastify.get<{"
                ELSE IF method = "put" THEN "fastify.put<{" ELSE "fastify.delete<{"
        new  == IF method = "put"
                THEN <<open, ParamsTournamentDivision, BodyUpdate, "}>", ScopedDivisionId>>
                ELSE <<open, ParamsTournamentDivision, "}>", ScopedDivisionId>>
    IN  <<Lit(<<open, "Params: { id: number };", BodyUpdate, "}>", "'", PathDivisionId>>, new),
          Lit(<<open, "Params: { id: number };", "}>", "'", PathDivisionId>>, new)>>

\* Update GET single division handler
GetSchemaRule ==
    [segs |-> <<<<"}>", "'", ScopedDivisionId, AsyncOpen, ValidateParameters,
                  OldParse, "(request.params);">>>>,
     keep |-> 4,
     ins |-> <<ValidateParameters, NewParse, "(request.params);">>,
     count |-> 0]

GetValidateRule ==
    [segs |-> <<<<NewParse, "(request.params);">>, <<IdData, TryOpen>>>>,
     keep |-> 1,
     ins |-> <<TidData, TryOpen, BelongsComment, CallDivision,
               "if (!division) return;",
               "// Division validated - continue with normal logic", TryOpen>>,
     count |-> 1]

\* Update PUT division handler (method put), DELETE handler (method delete)
IdSchemaRule(open) ==
    [segs |-> <<<<open>>, <<ParamsTournamentDivision>>,
                <<"}", "}>", "'", ScopedDivisionId>>,
                <<"},", AsyncOpen, ValidateParameters, OldParse>>>>,
     keep |-> 2,
     ins |-> <<ValidateParameters, NewParse>>,
     count |-> 0]

PutDestructureRule ==
    [segs |-> <<<<ValidateParameters, NewParse>>, <<IdData, "// Validate body">>>>,
     keep |-> 1,
     ins |-> <<TidData, "// Validate body">>,
     count |-> 1]

\* Add validation before update operation in PUT handler
PutValidateRule ==
    [segs |-> <<<<NameData, TryOpen, "// Check if division exists">>>>,
     keep |-> 1,
     ins |-> <<TryOpen, BelongsComment, CallValidId, "if (!validDivision) return;",
               "// Division validated - proceed with update", TryOpen,
               "// Check if division exists", "(redundant but kept for consistency)">>,
     count |-> 1]

DeleteValidateRule ==
    [segs |-> <<<<ValidateParameters, NewParse>>, <<IdData, TryOpen>>>>,
     keep |-> 1,
     ins |-> <<TidData, TryOpen, BelongsComment, CallValidId,
               "if (!validDivision) return;",
               "// Division validated - proceed with delete", TryOpen>>,
     count |-> 1]

\* Generate matches route
GenerateRouteRule ==
    Lit(<<"fastify.post<{", "Params: { divisionId: number };", BodyGenerate, "}>", "'",
          PathGenerate>>,
        <<"fastify.post<{", ParamsDivisionId, BodyGenerate, "}>", ScopedGenerate>>)

DivisionIdParamsCheck ==
    <<"// Validate params",
      "const paramsResult = divisionIdParamsSchema.safeParse(request.params);",
      InvalidParameters, "const { tournamentId, divisionId } = paramsResult.data;">>

\* Update generate-matches handler; Add param validation at start of handler
\* (pool routes): the same pattern on the path of the route
ParamsRule(path) ==
    [segs |-> <<<<"}>", "'", path>>, <<"},", AsyncOpen, DivisionIdNumber>>>>,
     keep |-> 2,
     ins |-> DivisionIdParamsCheck,
     count |-> 0]

\* Add validation in generate-matches before division check
GenerateValidateRule ==
    [segs |-> <<<<"const { format } = bodyResult.data;">>, <<TryOpen, VerifyExists>>>>,
     keep |-> 1,
     ins |-> <<BelongsComment, CallValidDivisionId, "if (!validDivision) return;",
               "// Division validated - proceed with match generation",
               VerifyExists, "(redundant check but kept)">>,
     count |-> 1]

\* Remove the old isNaN check
IsNaNRule == Lit(<<IsNaNCheck>>, <<>>)

\* Update pool creation routes: the pattern's Body alternatives, for a route
PoolRouteRules(path, scoped) ==
    <<Lit(<<"fastify.post<{", "Params: { divisionId: number };", BodyBulk, "}>", "'", path>>,
          <<"fastify.post<{", ParamsDivisionId, BodyBulk, "}>", scoped>>),
      Lit(<<"fastify.post<{", "Params: { divisionId: number };", BodyPool, "}>", "'", path>>,
          <<"fastify.post<{", ParamsDivisionId, BodyPool, "}>", scoped>>)>>

\* Add validation before division check: the pattern does not use
\* route_suffix, both turns of the loop apply this rule
PoolValidateRule ==
    [segs |-> <<<<"const { pools: poolsToCreate } = bodyResult.data;">>,
                <<TryOpen, VerifyExists>>>>,
     keep |-> 1,
     ins |-> <<BelongsComment, CallValidDivisionId, "if (!validDivision) return;",
               "// Division validated - proceed", VerifyExists, "(redundant but kept)">>,
     count |-> 1]

\* Handle single pool creation
SinglePoolRule ==
    [segs |-> <<<<"const { name, label, orderIndex } = bodyResult.data;", TryOpen,
                  VerifyExists>>>>,
     keep |-> 2,
     ins |-> <<BelongsComment, CallValidDivisionId, "if (!validDivision) return;",
               "// Division validated - proceed", VerifyExists, "(redundant but kept)">>,
     count |-> 1]

\* the body of update_divisions_file: its re.sub calls in order, loops
\* unrolled; a step with several rules is one re.sub whose pattern has
\* alternatives that cannot overlap
CompleteSteps ==
    << <<HelpersRule>>,
       <<CompleteCreateRouteRule>>,
       <<CreateHandlerRule>>,
       <<ListRouteRule>>,
       <<ListHandlerRule>>,
       <<ListQueryRule>>,
       <<CountQueryRule>>,
       IdRouteRules("get"),
       IdRouteRules("put"),
       IdRouteRules("delete"),
       <<GetSchemaRule>>,
       <<GetValidateRule>>,
       <<IdSchemaRule("fastify.put<{")>>,
       <<PutDestructureRule>>,
       <<PutValidateRule>>,
       <<IdSchemaRule("fastify.delete<{")>>,
       <<DeleteValidateRule>>,
       <<GenerateRouteRule>>,
       <<ParamsRule(ScopedGenerate)>>,
       <<GenerateValidateRule>>,
       <<IsNaNRule>>,
       PoolRouteRules(PathPools, ScopedPools),
       PoolRouteRules(PathPoolsBulk, ScopedPoolsBulk),
       <<ParamsRule(ScopedPoolsBulk)>>,
       <<IsNaNRule>>,
       <<PoolValidateRule>>,
       <<ParamsRule(ScopedPools)>>,
       <<IsNaNRule>>,
       <<PoolValidateRule>>,
       <<SinglePoolRule>> >>

\* positions of steps in CompleteSteps
StepHelpers      == 1
StepCreateHandler == 3
StepListRoute    == 4
StepListHandler  == 5
StepListQuery    == 6
StepGetValidate  == 12
StepPutValidate  == 15
StepDeleteValidate == 17
StepGenerateValidate == 20
StepBulkTurn     == 26
StepPoolsTurn    == 29
StepSinglePool   == 30

\* the route whose declaration is the last one at or before position p of t
OpenTokens == {"fastify.get<{", "fastify.post<{", "fastify.put<{", "fastify.delete<{"}
PathTokens == {PathDivisions, PathDivisionId, PathGenerate, PathPools, PathPoolsBulk,
               ScopedDivisions, ScopedDivisionId, ScopedGenerate, ScopedPools,
               ScopedPoolsBulk}

RouteName(open, path) ==
    CASE path \in {PathDivisions, ScopedDivisions} ->
            (IF open = "fastify.post<{" THEN "create" ELSE "list")
      [] path \in {PathDivisionId, ScopedDivisionId} ->
            (IF open = "fastify.get<{" THEN "get"
             ELSE IF open = "fastify.put<{" THEN "put" ELSE "delete")
      [] path \in {PathGenerate, ScopedGenerate} -> "generate"
      [] path \in {PathPools, ScopedPools} -> "pools"
      [] path \in {PathPoolsBulk, ScopedPoolsBulk} -> "bulk"

HandlerAt(t, p) ==
    LET P == {i \in 1..p : t[i] \in PathTokens}
    IN  IF P = {} THEN "none"
        ELSE LET i == CHOOSE x \in P : \A y \in P : y <= x
                 O == {j \in 1..i : t[j] \in OpenTokens}
             IN  IF O = {} THEN "none"
                 ELSE RouteName(t[CHOOSE x \in O : \A y \in O : y <= x], t[i])

\* the handler in which rule r, applied to t, puts the text it inserts at
\* its first match; "none" when it does not match
InsertedIn(t, r) ==
    LET m == Search(t, r.segs, 1)
    IN  IF m.s = 0 THEN "none" ELSE HandlerAt(t, m.e - 1)

----------------------------------------------------------------------------
(* update_divisions_file of the complete script applied to an argument,    *)
(* one re.sub after the other.                                             *)

InitComplete ==
    /\ cin \in Arguments
    /\ ctext = cin
    /\ cstep = 0
    /\ cocc = <<>>
    /\ cins = <<>>
    /\ script = "complete"
    /\ fault = "none"
    /\ pc = "function"
    /\ file = <<>>
    /\ original = <<>>
    /\ pre = <<>>
    /\ FreshRun
    /\ runs = 0
    /\ okRuns = 0

\* content = re.sub(...): the next step of the function body
CompleteStep ==
    /\ cstep < Len(CompleteSteps)
    /\ ctext' = SubAll(ctext, CompleteSteps[cstep + 1], 1)
    /\ cocc' = Append(cocc, OccAll(ctext, CompleteSteps[cstep + 1], 1))
    /\ cins' = Append(cins, InsertedIn(ctext, CompleteSteps[cstep + 1][1]))
    /\ cstep' = cstep + 1
    /\ UNCHANGED cin
    /\ UNCHANGED procVars

NextComplete == CompleteStep

SpecComplete == InitComplete /\ [][NextComplete]_vars

----------------------------------------------------------------------------
(* Predicates on texts used by the properties.                             *)

FlatPath(r) ==
    CASE r \in {"create", "list"}        -> PathDivisions
      [] r \in {"get", "put", "delete"}  -> PathDivisionId
      [] r = "generate"                  -> PathGenerate
      [] r = "pools"                     -> PathPools
      [] r = "bulk"                      -> PathPoolsBulk

ScopedPath(r) ==
    CASE r \in {"create", "list"}        -> ScopedDivisions
      [] r \in {"get", "put", "delete"}  -> ScopedDivisionId
      [] r = "generate"                  -> ScopedGenerate
      [] r = "pools"                     -> ScopedPools
      [] r = "bulk"                      -> ScopedPoolsBulk

NewParamsTypes == {ParamsTournament, ParamsTournamentDivision, ParamsDivisionId}

\* t declares route r flat, in the framework's convention  }>('<path>',
FlatDeclared(t, r) ==
    \E i \in 2..Len(t) :
        t[i] = FlatPath(r) /\ t[i - 1] = "}>" /\ HandlerAt(t, i) = r

\* t declares route r under /tournaments/:tournamentId with a Params type
\* that refers to a new schema
ScopedDeclared(t, r) ==
    \E i \in 2..Len(t) :
        /\ t[i] = ScopedPath(r)
        /\ HandlerAt(t, i) = r
        /\ \E j \in 1..(i - 1) :
              /\ t[j] \in NewParamsTypes
              /\ \A k \in j..(i - 1) : t[k] \notin OpenTokens

FlatPaths == {PathDivisions, PathDivisionId, PathGenerate, PathPools, PathPoolsBulk}

NoFlatRoute(t) == \A i \in 1..Len(t) : t[i] \notin FlatPaths

\* occurrences each rule of the changes script replaced in this run
ChangesOcc(k) == Occ(hist[k], ChangesRules[k])

\* no pattern of the script of this run occurs in t
NoPatternOccurs(t) ==
    IF script = "changes"
    THEN \A k \in 1..Len(ChangesRules) : Occ(t, ChangesRules[k]) = 0
    ELSE \A k \in 1..Len(CompleteSteps) :
            \A n \in 1..Len(CompleteSteps[k]) : Occ(t, CompleteSteps[k][n]) = 0

\* the printed report states the occurrences of rule k of the changes script
Reported(k, n) == \E i \in 1..Len(out) : <<k, n>> \in RuleFacts(out[i])

\* the steps of the complete script that insert a call of a helper
TournamentCallSteps == {StepCreateHandler, StepListQuery}
DivisionCallSteps ==
    {StepGetValidate, StepPutValidate, StepDeleteValidate, StepGenerateValidate,
     StepBulkTurn, StepPoolsTurn, StepSinglePool}

\* the handler each of them is meant for
Target(k) ==
    CASE k = StepGetValidate      -> "get"
      [] k = StepPutValidate      -> "put"
      [] k = StepDeleteValidate   -> "delete"
      [] k = StepGenerateValidate -> "generate"
      [] k = StepBulkTurn         -> "bulk"
      [] k = StepPoolsTurn        -> "bulk"
      [] k = StepSinglePool       -> "pools"

DivisionCalls == {CallDivision, CallValidId, CallValidDivisionId}

CallsIn(t, h) ==
    Cardinality({i \in 1..Len(t) : t[i] \in DivisionCalls /\ HandlerAt(t, i) = h})

----------------------------------------------------------------------------
(* Properties.                                                             *)

\* C1 (atomic write): in every state of a run the file holds either the
\* complete text it held when the run started or the complete transformed
\* text, never an empty or truncated file.
C1_AtomicWrite == file \in {pre, update_divisions_file(pre)}

\* C2 (non-match reporting): when a run has completed, the printed report
\* states for every rule how many occurrences it replaced (zero for a rule
\* that did not match).
C2_RulesReported ==
    (pc = "exit" /\ exitCode = 0) =>
        \A k \in 1..Len(ChangesRules) : Reported(k, ChangesOcc(k))

\* C3 (no-op safety): a run, without I/O failure, on a file in which no
\* pattern of the script occurs ends with the file as it was, with zero
\* matches reported for every rule, and with exit status 0.
C3_NoOpSafety ==
    (pc = "exit" /\ fault = "none" /\ NoPatternOccurs(pre)) =>
        /\ file = pre
        /\ exitCode = 0
        /\ \A k \in 1..Len(ChangesRules) : Reported(k, 0)

\* C4 (idempotence): after update_divisions_file has been applied to its
\* own output, by a second completed run on the file the first run wrote,
\* the file is unchanged or holds the inserted block of new parameter
\* schemas at most once.
C4_NoDoubleInsertion ==
    (pc = "exit" /\ okRuns = 2) =>
        (file = pre \/ Count(file, new_schemas) <= 1)

\* C5 (per-route completeness): when the complete script has run on a file
\* that declares all eight flat routes in the framework's convention, the
\* file declares each of them under /tournaments/:tournamentId with a
\* Params type of a new schema, and no flat route path remains.
C5_AllRoutesScoped ==
    (pc = "exit" /\ script = "complete"
        /\ \A r \in RouteNames : FlatDeclared(pre, r)) =>
        /\ \A r \in RouteNames : ScopedDeclared(file, r)
        /\ NoFlatRoute(file)

\* C6 (order sensitivity): on a text with the flat LIST route, about to be
\* given to the LIST route rule (A), the LIST handler rule (B) matches the
\* text A produces, and does not match when it is applied before A.
C6_OrderSensitive ==
    (cstep = StepListRoute - 1
        /\ \E i \in 1..Len(ctext) :
               ctext[i] = PathDivisions /\ HandlerAt(ctext, i) = "list") =>
        /\ Occ(Sub(ctext, ListRouteRule), ListHandlerRule) > 0
        /\ Occ(ctext, ListHandlerRule) = 0

\* C7 (sequential composition): the file is read once, before the first
\* rule; rule k is applied to the text rule k-1 produced, in the declared
\* order; the file is written once, after the last rule, with the text
\* the last rule produced.
C7_SequentialComposition ==
    /\ ruleNo > 0 => (reads = 1 /\ hist[1] = pre)
    /\ reads <= 1
    /\ Len(hist) = (IF reads = 1 THEN ruleNo + 1 ELSE 0)
    /\ \A k \in 1..ruleNo : hist[k + 1] = Sub(hist[k], ChangesRules[k])
    /\ writes <= 1
    /\ opensW > 0 => ruleNo = Len(ChangesRules)
    /\ writes = 1 =>
          (written = hist[Len(ChangesRules) + 1] /\ file = written)
    /\ (pc = "exit" /\ exitCode = 0) => (reads = 1 /\ writes = 1)

\* a completed run in which two rules each changed the text
C7_Witness ==
    /\ pc = "exit" /\ exitCode = 0
    /\ hist[2] # hist[1]
    /\ hist[4] # hist[3]
    /\ file = hist[Len(ChangesRules) + 1]

\* C8 (I/O errors are fatal before any mutation): while the file has not
\* been read no rule is applied, the file is not opened for writing,
\* nothing is printed and an exit is non-zero; while the file has not been
\* opened for writing its content is unchanged and an exit is non-zero;
\* exit status 0 only after a completed write.
C8_FatalBeforeMutation ==
    /\ reads = 0 =>
          /\ ruleNo = 0 /\ opensW = 0 /\ writes = 0 /\ out = <<>>
          /\ exitCode # 0
    /\ opensW = 0 => (file = pre /\ exitCode # 0)
    /\ exitCode = 0 => (writes = 1 /\ file = written)
    /\ (pc = "exit" /\ writes = 0) => exitCode > 0

\* open(path, 'w') failed after the rules had changed the text: the
\* process has exited and the file is as it was
C8_Witness ==
    /\ pc = "exit" /\ fault = "open_w"
    /\ content # pre
    /\ file = pre
    /\ exitCode = UncaughtExit

\* C9 (helper calls imply helper definitions): in every output of the
\* complete script's update_divisions_file, if a rule inserted a call of
\* validateTournament or validateDivisionInTournament then the helpers
\* rule matched and the two definitions are present exactly once.
C9_CallsImplyHelpers ==
    (cstep = Len(CompleteSteps)
        /\ \E k \in TournamentCallSteps \cup DivisionCallSteps : cocc[k] > 0) =>
        /\ cocc[StepHelpers] > 0
        /\ Count(ctext, validation_helpers) = 1

\* C10 (targeted, at-most-once insertion): every rule that inserts a call
\* of validateDivisionInTournament places it in the handler it is meant
\* for (both turns of the pool loop: the bulk-pools handler), and after the
\* last rule no handler holds more than one inserted call.
C10_TargetedInsertion ==
    /\ \A k \in DivisionCallSteps :
          (k <= cstep /\ cocc[k] > 0) => cins[k] = Target(k)
    /\ cstep = Len(CompleteSteps) => \A h \in RouteNames : CallsIn(ctext, h) <= 1

\* the declaration of divisionParamsSchema, with its doc comment
OldParamsSchema == <<OldParamsDoc, OldParamsDecl>>

IdRoutes == {"get", "put", "delete"}

\* t uses divisionParamsSchema in the handler of a '/divisions/:id' route
UsesOldSchema(t) ==
    \E i \in 1..Len(t) : t[i] = OldParse /\ HandlerAt(t, i) \in IdRoutes

\* C11 (no dangling reference to the removed schema): when the changes
\* script and then the complete script have been run on the same file, and
\* the removal rule of the first deleted the declaration of
\* divisionParamsSchema, the GET, PUT and DELETE '/divisions/:id' handlers
\* of the final text no longer hold divisionParamsSchema.safeParse.
C11_NoDanglingReference ==
    (pc = "exit" /\ script = "complete" /\ runs = 2 /\ okRuns = 1
        /\ Count(original, OldParamsSchema) > 0
        /\ Count(pre, OldParamsSchema) = 0) =>
        ~UsesOldSchema(file)

====
